---- MODULE Spec2Model ----
(***************************************************************************)
(* Order / M-Pesa payment backend (src/server.js; src/unnamed/part_000 is  *)
(* the EmailJS variant with the same handlers).                            *)
(*                                                                         *)
(* State: the Firebase 'orders' collection, the size of the write-only     *)
(* 'notifications' collection, the gateway's CheckoutRequestID counter,    *)
(* the wall clock, and the request last handled together with its          *)
(* response (res), its outbound effects (fx: gateway calls, emails, the    *)
(* notifications it wrote) and the I/O calls that failed during it (io).   *)
(* phoneIn/phoneOut are the argument and result of a formatPhone call.     *)
(***************************************************************************)
EXTENDS Integers, Sequences, FiniteSets, TLC

VARIABLES orders, notifications, nextCheckout, now, req, res, fx, io,
          phoneIn, phoneOut, inflight, deliveries, twin

vars == <<orders, notifications, nextCheckout, now, req, res, fx, io,
          phoneIn, phoneOut, inflight, deliveries, twin>>

(* ------------------------------ bounds -------------------------------- *)
MaxOrders == 2
MaxPush == 2
MaxNotifs == 5
MaxClock == 1
MaxTail == 13
MaxHead == 3
SliceOrders == 1
SlicePush == 1
SliceNotifs == 4

(* ------------------------- absent JS values --------------------------- *)
NoNum == -1
NoStr == "<absent>"
NoPhone == <<"<absent>">>

(* ---------------------------- phone strings --------------------------- *)
Digits == {"0", "1", "2", "3", "4", "5", "6", "7", "8", "9"}
C254 == <<"2", "5", "4">>
Plus254 == <<"+", "2", "5", "4">>
Sub9 == <<"7", "1", "2", "3", "4", "5", "6", "7", "8">>
P0712345678 == <<"0">> \o Sub9
P712345678 == Sub9
P254712345678 == C254 \o Sub9
PPlus254712345678 == <<"+">> \o C254 \o Sub9
P12345 == <<"1", "2", "3", "4", "5">>
Unknown == <<"U", "n", "k", "n", "o", "w", "n">>

StartsWith(s, p) == Len(s) >= Len(p) /\ SubSeq(s, 1, Len(p)) = p
Slice1(s) == SubSeq(s, 2, Len(s))
IsDigit(c) == c \in Digits
StripNonDigits(s) == SelectSeq(s, IsDigit)

(* Recode without the trunk-zero case *)
RecodeNoTrunk(cleaned) ==
  IF StartsWith(cleaned, Plus254) THEN Slice1(cleaned)
  ELSE IF ~StartsWith(cleaned, C254) THEN C254 \o cleaned
  ELSE cleaned

(* Recode that prefixes every string without a trunk zero *)
RecodeAlwaysPrefix(cleaned) ==
  IF StartsWith(cleaned, <<"0">>) THEN C254 \o Slice1(cleaned)
  ELSE C254 \o cleaned

(* formatPhone: the country-code rewriting of the cleaned digit string *)
Recode(cleaned) ==
  IF StartsWith(cleaned, <<"0">>) THEN C254 \o Slice1(cleaned)
  ELSE IF StartsWith(cleaned, Plus254) THEN Slice1(cleaned)
  ELSE IF ~StartsWith(cleaned, C254) THEN C254 \o cleaned
  ELSE cleaned

(* formatPhone without the length check *)
formatPhoneNoLength(phone) ==
  IF phone = <<>>
  THEN [ok |-> FALSE, value |-> NoPhone, error |-> "required", got |-> NoNum]
  ELSE [ok |-> TRUE, value |-> C254 \o StripNonDigits(phone), error |-> NoStr,
        got |-> NoNum]

(* formatPhone(phone): ok with the 12-digit value, or the thrown Error.    *)
(* error "required" is 'Phone number is required'; error "length" is       *)
(* 'Invalid phone number: .. Expected 12 digits after formatting, got N'   *)
(* with N in field got.                                                    *)
formatPhone(phone) ==
  IF phone = <<>>
  THEN [ok |-> FALSE, value |-> NoPhone, error |-> "required", got |-> NoNum]
  ELSE LET cleaned == Recode(StripNonDigits(phone))
       IN IF Len(cleaned) # 12
          THEN [ok |-> FALSE, value |-> NoPhone, error |-> "length",
                got |-> Len(cleaned)]
          ELSE [ok |-> TRUE, value |-> cleaned, error |-> NoStr, got |-> NoNum]

(* --------------------------- callback payloads ------------------------ *)
(* CallbackMetadata: present flag and the Item list of Name/Value pairs   *)
NoMeta == [present |-> FALSE, Item |-> <<>>]
MetaFull ==
  [present |-> TRUE,
   Item |-> << [Name |-> "MpesaReceiptNumber", Value |-> "ABC123"],
               [Name |-> "Amount", Value |-> 1500],
               [Name |-> "PhoneNumber", Value |-> P254712345678] >>]
MetaNoReceipt ==
  [present |-> TRUE,
   Item |-> << [Name |-> "Amount", Value |-> 700],
               [Name |-> "PhoneNumber", Value |-> P254712345678] >>]
Metas == {NoMeta, MetaFull}
MetaNoAmount ==
  [present |-> TRUE,
   Item |-> << [Name |-> "MpesaReceiptNumber", Value |-> "ABC123"],
               [Name |-> "PhoneNumber", Value |-> P254712345678] >>]
MetaNoPhone ==
  [present |-> TRUE,
   Item |-> << [Name |-> "MpesaReceiptNumber", Value |-> "ABC123"],
               [Name |-> "Amount", Value |-> 1500] >>]
MetaEmpty == [present |-> TRUE, Item |-> <<>>]
PartialMetas == {MetaNoReceipt, MetaNoAmount, MetaNoPhone, MetaEmpty}

DescOk == "The service request is processed successfully."
DescCancelled == "Request cancelled by user"
DescTimeout == "DS timeout user cannot be reached"

(* req.body of POST /api/mpesa/callback. shape "nostk": Body.stkCallback   *)
(* is missing. CheckoutRequestID 0: the field is missing.                  *)
NoBody ==
  [shape |-> "none", CheckoutRequestID |-> 0, ResultCode |-> NoNum,
   ResultDesc |-> NoStr, CallbackMetadata |-> NoMeta]
CallbackBodies ==
  { [shape |-> "nostk", CheckoutRequestID |-> 0, ResultCode |-> NoNum,
     ResultDesc |-> NoStr, CallbackMetadata |-> NoMeta],
    [shape |-> "stk", CheckoutRequestID |-> 0, ResultCode |-> 0,
     ResultDesc |-> DescOk, CallbackMetadata |-> MetaFull] }
  \cup
  { [shape |-> "stk", CheckoutRequestID |-> c, ResultCode |-> 0,
     ResultDesc |-> DescOk, CallbackMetadata |-> m] :
       c \in 1..MaxPush, m \in Metas }
  \cup
  { [shape |-> "stk", CheckoutRequestID |-> c, ResultCode |-> 1,
     ResultDesc |-> DescCancelled, CallbackMetadata |-> NoMeta] :
       c \in 1..MaxPush }

(* a lookup that never finds the entry *)
MetaValueMissed(meta, name, dflt) == dflt

(* meta.find(i => i.Name === name)?.Value || dflt *)
MetaValue(meta, name, dflt) ==
  LET hits == SelectSeq(meta, LAMBDA i : i.Name = name)
  IN IF hits = <<>> THEN dflt ELSE hits[1].Value

(* ------------------------------- orders ------------------------------- *)
NoMpesaData ==
  [checkoutRequestId |-> 0, merchantRequestId |-> 0, stkPushSentAt |-> NoNum,
   amount |-> NoNum, phoneNumber |-> NoPhone, receiptNumber |-> NoStr,
   completedAt |-> NoNum, reason |-> NoStr, failedAt |-> NoNum,
   mpesaCallback |-> NoBody]

MpesaKeys == DOMAIN NoMpesaData

(* a merge in which a stored field wins over the new one *)
MergeMpesaStoredWins(current, mpesaData) ==
  [k \in MpesaKeys |->
     IF k \in DOMAIN mpesaData /\ current[k] = NoMpesaData[k]
     THEN mpesaData[k] ELSE current[k]]

(* { ...(currentOrder.mpesaData || {}), ...mpesaData } *)
MergeMpesa(current, mpesaData) ==
  [k \in MpesaKeys |-> IF k \in DOMAIN mpesaData THEN mpesaData[k] ELSE current[k]]

OrderIds == DOMAIN orders

(* a query that returns every order that has a checkoutRequestId *)
FindAnyCheckout(cid) ==
  {o \in OrderIds : orders[o].mpesaData.checkoutRequestId # 0}

(* a range query, endAt(cid): orders without the child sort first *)
FindUpToCheckout(cid) ==
  {o \in OrderIds : orders[o].mpesaData.checkoutRequestId <= cid}

(* a range query, startAt(cid) *)
FindFromCheckout(cid) ==
  {o \in OrderIds : orders[o].mpesaData.checkoutRequestId >= cid}

(* orderByChild('mpesaData/checkoutRequestId').equalTo(cid) *)
FindByCheckout(cid) ==
  {o \in OrderIds : orders[o].mpesaData.checkoutRequestId = cid}

(* Object.keys(orders)[0]: push keys sort in creation order *)
FirstKey(S) == CHOOSE o \in S : \A p \in S : o <= p

(* items.map(...) of POST /api/orders *)
MapItem(item) ==
  [name |-> IF item.name = "" THEN "Unknown Product" ELSE item.name,
   price |-> item.price,
   quantity |-> IF item.quantity = 0 THEN 1 ELSE item.quantity]
MapItems(items) == [i \in 1..Len(items) |-> MapItem(items[i])]

(* ----------------------------- notifications -------------------------- *)
Notification(kind, type, orderId, reason) ==
  [kind |-> kind, type |-> type, orderId |-> orderId, reason |-> reason]

(* createNotification: the write may fail; the error is swallowed. sent is *)
(* the list of notifications this request has written so far.              *)
createNotification(sent, failed, n) == IF failed THEN sent ELSE Append(sent, n)

(* --------------------------- request/response ------------------------- *)
NoReq == [op |-> "none", body |-> NoBody]
NoRes ==
  [status |-> 0, message |-> NoStr, orderId |-> 0, got |-> NoNum,
   ResultCode |-> NoNum, ResultDesc |-> NoStr, CheckoutRequestID |-> 0]
NoFx == [token |-> FALSE, push |-> FALSE, PartyA |-> NoPhone, query |-> FALSE,
         customerEmail |-> FALSE, adminEmail |-> FALSE, notified |-> <<>>]

Http(status, message) == [NoRes EXCEPT !.status = status, !.message = message]
Ack(code, desc) ==
  [NoRes EXCEPT !.status = 200, !.ResultCode = code, !.ResultDesc = desc]

(* ------------------------------ inputs -------------------------------- *)
NoItems == [present |-> FALSE, list |-> <<>>]
Item1 == [name |-> "Phone", price |-> 1500, quantity |-> 1]
Items(list) == [present |-> TRUE, list |-> list]

(* req.body of POST /api/orders; "" and <<>> stand for a missing or empty  *)
(* field, NoNum for a missing total                                        *)
OrderBody(items, total, name, phone, address, email, method) ==
  [items |-> items, total |-> total,
   customerInfo |-> [name |-> name, phone |-> phone,
                     deliveryAddress |-> address, email |-> email],
   paymentMethod |-> method]

GoodBody(phone, email) ==
  OrderBody(Items(<<Item1>>), 1500, "Jane", phone, "Nairobi", email, "mpesa")

GoodBodies ==
  { GoodBody(P0712345678, ""), GoodBody(PPlus254712345678, "jane@example.com") }

BadBodies ==
  { GoodBody(P12345, ""),
    OrderBody(NoItems, 1500, "Jane", P0712345678, "Nairobi", "", "mpesa"),
    OrderBody(Items(<<>>), 1500, "Jane", P0712345678, "Nairobi", "", "mpesa"),
    OrderBody(Items(<<Item1>>), NoNum, "Jane", P0712345678, "Nairobi", "", "mpesa"),
    OrderBody(Items(<<Item1>>), 0, "Jane", P0712345678, "Nairobi", "", "mpesa"),
    OrderBody(Items(<<Item1>>), -5, "Jane", P0712345678, "Nairobi", "", "mpesa"),
    OrderBody(Items(<<Item1>>), 1500, "", P0712345678, "Nairobi", "", "mpesa"),
    OrderBody(Items(<<Item1>>), 1500, "Jane", <<>>, "Nairobi", "", "mpesa"),
    OrderBody(Items(<<Item1>>), 1500, "Jane", P0712345678, "", "", "mpesa"),
    OrderBody(Items(<<Item1>>), 1500, "Jane", P0712345678, "Nairobi", "", "") }

OrderBodies == GoodBodies \cup BadBodies

(* req.body of POST /api/mpesa/stk-push; orderId 0: missing; amount 0:     *)
(* missing or zero                                                         *)
StkBody(phone, amount, orderId) ==
  [phoneNumber |-> phone, amount |-> amount, orderId |-> orderId]
StkBodies ==
  { StkBody(P0712345678, 1500, o) : o \in 1..(MaxOrders + 1) }
  \cup
  { StkBody(P0712345678, 700, 1), StkBody(P12345, 1500, 1),
    StkBody(<<>>, 1500, 1), StkBody(P0712345678, 0, 1),
    StkBody(P0712345678, -5, 1), StkBody(P0712345678, 1500, 0) }

(* Which I/O calls fail during one request. throwAt: the first store or    *)
(* gateway call that throws; catchFail: the lookup in the stk-push catch   *)
(* block throws; the other flags are calls whose failure is swallowed.     *)
Faults(throwAts) ==
  [throwAt : throwAts, catchFail : BOOLEAN, notifyFail : BOOLEAN,
   emailFail : BOOLEAN, adminFail : BOOLEAN]
NoFault ==
  [throwAt |-> "none", catchFail |-> FALSE, notifyFail |-> FALSE,
   emailFail |-> FALSE, adminFail |-> FALSE]
Single(f) ==
  Cardinality({k \in {"catchFail", "notifyFail", "emailFail", "adminFail"} : f[k]})
    + (IF f.throwAt = "none" THEN 0 ELSE 1) <= 1
OrderFaults ==
  {f \in Faults({"none", "save"}) : Single(f)}
GetFaults == {[NoFault EXCEPT !.throwAt = a] : a \in {"none", "getOrder"}}
StkFaults ==
  {f \in Faults({"none", "getOrder", "token", "stkpush", "uosRead", "uosWrite",
                 "uosReread"}) :
     /\ ~f.emailFail /\ ~f.adminFail /\ ~f.notifyFail
     /\ (f.catchFail => f.throwAt # "none")} \cup {[NoFault EXCEPT !.notifyFail = TRUE]}
CallbackFaults ==
  {f \in Faults({"none", "query", "uosRead", "uosWrite", "uosReread"}) :
     Single(f) /\ ~f.catchFail}

(* ------------------------------ store --------------------------------- *)
(* a save under a fixed key instead of db.ref('orders').push() *)
saveOrderToFirebaseFixedKey(store, orderData, t) ==
  LET order == [orderData EXCEPT !.id = 1, !.createdAt = t,
                                 !.updatedAt = t, !.status = "pending"]
  IN IF store = <<>> THEN <<order>> ELSE [store EXCEPT ![1] = order]

(* saveOrderToFirebase: ref.key is the next push key *)
saveOrderToFirebase(store, orderData, t) ==
  Append(store,
         [orderData EXCEPT !.id = Len(store) + 1, !.createdAt = t,
                           !.updatedAt = t, !.status = "pending"])

(* a write with set() instead of update(): the order is replaced by the   *)
(* three fields                                                            *)
WriteStatusSet(store, orderId, status, merged, t) ==
  [store EXCEPT ![orderId] =
     [@ EXCEPT !.status = status, !.updatedAt = t, !.mpesaData = merged,
               !.items = <<>>, !.total = NoNum, !.paymentMethod = "",
               !.createdAt = NoNum,
               !.customerInfo = [name |-> "", phone |-> NoPhone,
                                 deliveryAddress |-> "", email |-> ""]]]

(* orderRef.update({ status, updatedAt, mpesaData }): the three fields of  *)
(* the update, written over whatever the order holds by then               *)
WriteStatus(store, orderId, status, merged, t) ==
  [store EXCEPT ![orderId] =
     [@ EXCEPT !.status = status, !.updatedAt = t, !.mpesaData = merged]]

(* updateOrderStatus that writes 'paid' whatever status it is given *)
updateOrderStatusPaid(store, orderId, status, mpesaData, t, throwAt) ==
  [store |-> [store EXCEPT ![orderId] =
                [@ EXCEPT !.status = "paid", !.updatedAt = t,
                          !.mpesaData = MergeMpesa(@, mpesaData)]],
   threw |-> FALSE]

(* updateOrderStatus whose catch logs the store error and does not rethrow *)
updateOrderStatusSwallows(store, orderId, status, mpesaData, t, throwAt) ==
  IF orderId \notin DOMAIN store \/ throwAt \in {"uosRead", "uosWrite"}
  THEN [store |-> store, threw |-> FALSE]
  ELSE [store |-> [store EXCEPT ![orderId] =
                     [@ EXCEPT !.status = status, !.updatedAt = t,
                               !.mpesaData = MergeMpesa(@, mpesaData)]],
        threw |-> FALSE]

(* updateOrderStatus whose update reaches the store although the call     *)
(* reports a failure                                                       *)
updateOrderStatusLateError(store, orderId, status, mpesaData, t, throwAt) ==
  IF orderId \notin DOMAIN store \/ throwAt = "uosRead"
  THEN [store |-> store, threw |-> TRUE]
  ELSE [store |-> WriteStatus(store, orderId, status,
                    MergeMpesa(store[orderId].mpesaData, mpesaData), t),
        threw |-> throwAt \in {"uosWrite", "uosReread"}]

(* updateOrderStatus that writes the status and the mpesaData in two       *)
(* updates, of which the second may fail                                   *)
updateOrderStatusTwoWrites(store, orderId, status, mpesaData, t, throwAt) ==
  IF orderId \notin DOMAIN store \/ throwAt = "uosRead"
  THEN [store |-> store, threw |-> TRUE]
  ELSE IF throwAt = "uosWrite"
  THEN [store |-> [store EXCEPT ![orderId].status = status,
                                ![orderId].updatedAt = t],
        threw |-> TRUE]
  ELSE [store |-> WriteStatus(store, orderId, status,
                    MergeMpesa(store[orderId].mpesaData, mpesaData), t),
        threw |-> throwAt = "uosReread"]

(* updateOrderStatus with a non-null mpesaData: read, merge, update,       *)
(* re-read. throwAt names the store call that fails, if any; the read of   *)
(* an order that does not exist yields null, and currentOrder.mpesaData    *)
(* throws.                                                                 *)
updateOrderStatus(store, orderId, status, mpesaData, t, throwAt) ==
  LET merged == MergeMpesa(store[orderId].mpesaData, mpesaData)
      written == WriteStatus(store, orderId, status, merged, t)
  IN IF orderId \notin DOMAIN store \/ throwAt \in {"uosRead", "uosWrite"}
     THEN [store |-> store, threw |-> TRUE]
     ELSE IF throwAt = "uosReread"
     THEN [store |-> written, threw |-> TRUE]
     ELSE [store |-> written, threw |-> FALSE]

(* What a handler leaves behind: the orders collection, the gateway's      *)
(* counter, the response, the effects and the failed calls.                *)
Outcome(store, checkout, r, effects, failed) ==
  [orders |-> store, nextCheckout |-> checkout, res |-> r, fx |-> effects,
   io |-> failed]

Notified(effects, sent) == [effects EXCEPT !.notified = sent]
NotifyIo(flt) == IF flt.notifyFail THEN {"notify"} ELSE {}

(* ---------------------------- POST /api/orders ------------------------ *)
(* a validation gate that accepts any total *)
ValidateOrderAnyTotal(body) ==
  IF ~body.items.present \/ body.items.list = <<>> THEN "items"
  ELSE IF body.customerInfo.name = "" \/ body.customerInfo.phone = <<>>
          \/ body.customerInfo.deliveryAddress = "" THEN "customerInfo"
  ELSE IF body.paymentMethod = "" THEN "paymentMethod"
  ELSE "ok"

(* The validation gate of POST /api/orders: the first check that fails,   *)
(* or "ok"                                                                *)
ValidateOrder(body) ==
  IF ~body.items.present \/ body.items.list = <<>> THEN "items"
  ELSE IF body.total = NoNum \/ body.total = 0 \/ body.total <= 0 THEN "total"
  ELSE IF body.customerInfo.name = "" \/ body.customerInfo.phone = <<>>
          \/ body.customerInfo.deliveryAddress = "" THEN "customerInfo"
  ELSE IF body.paymentMethod = "" THEN "paymentMethod"
  ELSE "ok"

(* an order creation that lets the notification error escape to the catch *)
OrderCreatedNotifyThrows(saved, id, flt) ==
  IF flt.notifyFail
  THEN Outcome(saved, nextCheckout, Http(500, "notification"), NoFx, {"notify"})
  ELSE Outcome(saved, nextCheckout,
               [Http(201, "created") EXCEPT !.orderId = id],
               Notified(NoFx, <<Notification("order", "info", id, NoStr)>>), {})

(* after the save: the creation notification, then 201 with the order *)
OrderCreated(saved, id, flt) ==
  Outcome(saved, nextCheckout,
          [Http(201, "created") EXCEPT !.orderId = id],
          Notified(NoFx, createNotification(<<>>, flt.notifyFail,
                     Notification("order", "info", id, NoStr))),
          NotifyIo(flt))

OrderOutcome(body, t, flt) ==
  LET invalid == ValidateOrder(body)
      phone == formatPhone(body.customerInfo.phone)
      orderData ==
        [id |-> 0,
         items |-> MapItems(body.items.list),
         total |-> body.total,
         customerInfo |-> [body.customerInfo EXCEPT !.phone = phone.value],
         paymentMethod |-> body.paymentMethod,
         status |-> "pending", createdAt |-> t, updatedAt |-> t,
         mpesaData |-> NoMpesaData]
      saved == saveOrderToFirebase(orders, orderData, t)
      id == Len(saved)
  IN IF invalid # "ok"
     THEN Outcome(orders, nextCheckout, Http(400, invalid), NoFx, {})
     ELSE IF ~phone.ok
     THEN Outcome(orders, nextCheckout,
                  [Http(400, "phone") EXCEPT !.got = phone.got], NoFx, {})
     ELSE IF flt.throwAt = "save"
     THEN Outcome(orders, nextCheckout, Http(500, "store"), NoFx, {"save"})
     ELSE OrderCreated(saved, id, flt)

(* handlers suspended at an await: a push whose gateway request was        *)
(* accepted and whose payment_pending update has not been written, and     *)
(* the deliveries of one callback payload                                  *)
NoPush == [pc |-> "idle", body |-> StkBody(<<>>, 0, 0), phone |-> NoPhone,
           cid |-> 0, cur |-> NoMpesaData]
NoDelivery == [pc |-> "idle", body |-> NoBody, orderId |-> 0,
               cur |-> NoMpesaData, t |-> 0]
Deliveries == {"first", "second"}

(* what the EmailJS variant of the server (src/unnamed/part_000) leaves    *)
(* behind for the request just handled                                     *)
NoTwin == [orders |-> <<>>, nextCheckout |-> 1, res |-> NoRes, fx |-> NoFx,
           io |-> {}]

(* The response of one request: the handler's outcome becomes the next    *)
(* state                                                                   *)
Respond(op, body, t, out) ==
  /\ Len(out.orders) <= MaxOrders
  /\ out.nextCheckout <= MaxPush + 1
  /\ notifications + Len(out.fx.notified) <= MaxNotifs
  /\ orders' = out.orders
  /\ notifications' = notifications + Len(out.fx.notified)
  /\ nextCheckout' = out.nextCheckout
  /\ now' = t
  /\ req' = [op |-> op, body |-> body]
  /\ res' = out.res
  /\ fx' = out.fx
  /\ io' = out.io
  /\ UNCHANGED <<phoneIn, phoneOut>>

(* One request handled from its arrival to its response while no other    *)
(* handler runs                                                            *)
Handle(op, body, t, out) ==
  /\ Respond(op, body, t, out)
  /\ UNCHANGED <<inflight, deliveries, twin>>

CreateOrder(bodies, faults, tmax) ==
  \E body \in bodies, t \in now..tmax, flt \in faults :
    Handle("orders", body, t, OrderOutcome(body, t, flt))

(* -------------------------- GET /api/orders/:id ----------------------- *)
GetOutcome(body, flt) ==
  IF flt.throwAt = "getOrder"
  THEN Outcome(orders, nextCheckout, Http(500, "store"), NoFx, {"getOrder"})
  ELSE IF body.orderId \in OrderIds
  THEN Outcome(orders, nextCheckout,
               [Http(200, "ok") EXCEPT !.orderId = body.orderId], NoFx, {})
  ELSE Outcome(orders, nextCheckout, Http(404, "Order not found"), NoFx, {})

GetBodies == {StkBody(<<>>, 0, o) : o \in 1..(MaxOrders + 1)}

GetOrder(faults) ==
  \E body \in GetBodies, flt \in faults :
    Handle("get", body, now, GetOutcome(body, flt))

(* ------------------------ POST /api/mpesa/stk-push -------------------- *)
(* a handler that does not verify that the order exists *)
OrderFoundAlways(store, orderId) == TRUE

(* const order = await getOrderById(orderId); if (!order) ... *)
OrderFound(store, orderId) == orderId \in DOMAIN store

(* a catch block that also marks the order as failed *)
StkCatchMarksFailed(store, checkout, body, message, effects, failed, flt) ==
  IF flt.catchFail
  THEN Outcome(store, checkout, NoRes, effects, failed \cup {"catchGetOrder"})
  ELSE IF body.orderId \in DOMAIN store
  THEN Outcome([store EXCEPT ![body.orderId].status = "payment_failed"],
               checkout, Http(500, message),
               Notified(effects, createNotification(<<>>, flt.notifyFail,
                 Notification("stk-failed", "error", body.orderId, message))),
               failed \cup NotifyIo(flt))
  ELSE Outcome(store, checkout, Http(500, message), effects, failed)

(* The catch block: look the order up again, notify, answer 500 with the   *)
(* error's message. A throw of that lookup leaves the request without a    *)
(* response (status 0).                                                    *)
StkCatch(store, checkout, body, message, effects, failed, flt) ==
  IF flt.catchFail
  THEN Outcome(store, checkout, NoRes, effects, failed \cup {"catchGetOrder"})
  ELSE IF body.orderId \in DOMAIN store
  THEN Outcome(store, checkout, Http(500, message),
               Notified(effects, createNotification(<<>>, flt.notifyFail,
                 Notification("stk-failed", "error", body.orderId, message))),
               failed \cup NotifyIo(flt))
  ELSE Outcome(store, checkout, Http(500, message), effects, failed)

(* an update that stores response.data.ResponseCode, which is the same for *)
(* every accepted request, as the checkoutRequestId                        *)
PushDataResponseCode(body, phone, checkout, t) ==
  [checkoutRequestId |-> 1,
   merchantRequestId |-> checkout,
   stkPushSentAt |-> t,
   amount |-> body.amount,
   phoneNumber |-> phone]

(* the mpesaData of the payment_pending update; checkout is the           *)
(* CheckoutRequestID (and MerchantRequestID) of the gateway's response     *)
PushData(body, phone, checkout, t) ==
  [checkoutRequestId |-> checkout,
   merchantRequestId |-> checkout,
   stkPushSentAt |-> t,
   amount |-> body.amount,
   phoneNumber |-> phone]

(* a token helper that logs the failure and returns no token *)
getMpesaAccessTokenSwallows(flt) ==
  [threw |-> FALSE,
   failed |-> IF flt.throwAt = "token" THEN {"token"} ELSE {}]

(* getMpesaAccessToken: missing credentials and every error of the token  *)
(* request are rethrown as 'M-Pesa auth failed'                            *)
getMpesaAccessToken(flt) ==
  [threw |-> flt.throwAt = "token",
   failed |-> IF flt.throwAt = "token" THEN {"token"} ELSE {}]

(* a push that refuses an amount other than the order's total *)
PushCommittedChecksAmount(body, phone, checkout, t, flt) ==
  LET fxPush == [NoFx EXCEPT !.token = TRUE, !.push = TRUE, !.PartyA = phone]
      upd == updateOrderStatus(orders, body.orderId, "payment_pending",
               PushData(body, phone, checkout, t), t, flt.throwAt)
  IN IF upd.threw \/ body.amount # orders[body.orderId].total
     THEN StkCatch(orders, checkout + 1, body, "store", fxPush, {}, flt)
     ELSE Outcome(upd.store, checkout + 1,
                  [Http(200, "STK Push initiated") EXCEPT
                     !.CheckoutRequestID = checkout],
                  Notified(fxPush, createNotification(<<>>, flt.notifyFail,
                    Notification("stk-sent", "info", body.orderId, NoStr))),
                  NotifyIo(flt))

(* From the gateway's acceptance on: the payment_pending update, the      *)
(* notification and the 200 response, or the catch block when the update   *)
(* throws. checkout is the CheckoutRequestID of the gateway's response.    *)
PushCommitted(body, phone, checkout, t, flt) ==
  LET fxPush == [NoFx EXCEPT !.token = TRUE, !.push = TRUE, !.PartyA = phone]
      upd == updateOrderStatus(orders, body.orderId, "payment_pending",
               PushData(body, phone, checkout, t), t, flt.throwAt)
  IN IF upd.threw
     THEN StkCatch(upd.store, checkout + 1, body, "store", fxPush,
                   {flt.throwAt}, flt)
     ELSE Outcome(upd.store, checkout + 1,
                  [Http(200, "STK Push initiated") EXCEPT
                     !.CheckoutRequestID = checkout],
                  Notified(fxPush, createNotification(<<>>, flt.notifyFail,
                    Notification("stk-sent", "info", body.orderId, NoStr))),
                  NotifyIo(flt) \cup getMpesaAccessToken(flt).failed)

StkOutcome(body, t, flt) ==
  LET early(r) == Outcome(orders, nextCheckout, r, NoFx, {})
      token == getMpesaAccessToken(flt)
      fxToken == [NoFx EXCEPT !.token = TRUE]
      phone == formatPhone(body.phoneNumber)
      fxPush == [fxToken EXCEPT !.push = TRUE, !.PartyA = phone.value]
  IN IF body.phoneNumber = <<>>
     THEN early(Http(400, "Phone number is required"))
     ELSE IF body.amount = 0 \/ body.amount <= 0
     THEN early(Http(400, "Valid amount is required"))
     ELSE IF body.orderId = 0
     THEN early(Http(400, "Order ID is required"))
     ELSE IF flt.throwAt = "getOrder"
     THEN StkCatch(orders, nextCheckout, body, "store", NoFx, {"getOrder"}, flt)
     ELSE IF ~OrderFound(orders, body.orderId)
     THEN early(Http(404, "Order not found"))
     ELSE IF token.threw
     THEN StkCatch(orders, nextCheckout, body, "auth", fxToken, token.failed, flt)
     ELSE IF ~phone.ok
     THEN StkCatch(orders, nextCheckout, body, "phone", fxToken, {}, flt)
     ELSE IF flt.throwAt = "stkpush"
     THEN StkCatch(orders, nextCheckout, body, "gateway", fxPush, {"stkpush"}, flt)
     ELSE PushCommitted(body, phone.value, nextCheckout, t, flt)

StkPush(bodies, faults, tmax) ==
  \E body \in bodies, t \in now..tmax, flt \in faults :
    Handle("stk-push", body, t, StkOutcome(body, t, flt))

(* ------------------------ POST /api/mpesa/callback -------------------- *)
(* a shape check that accepts a callback without CheckoutRequestID *)
ShapeErrorNoId(body) ==
  IF body.shape # "stk" THEN "No STK callback data" ELSE NoStr

(* the two shape checks: the description of the refusal, or NoStr *)
ShapeError(body) ==
  IF body.shape # "stk" THEN "No STK callback data"
  ELSE IF body.CheckoutRequestID = 0 THEN "No CheckoutRequestID"
  ELSE NoStr

(* a branch that takes every code up to 1 as success *)
PaymentSucceededUpToOne(code) == code <= 1

(* if (ResultCode === 0) *)
PaymentSucceeded(code) == code = 0

(* a success branch whose email errors escape to the handler's catch *)
PaidOutcomeEmailThrows(store, orderId, flt) ==
  IF flt.emailFail \/ flt.adminFail
  THEN Outcome(store, nextCheckout, Ack(1, "Callback processing failed"),
               [NoFx EXCEPT !.query = TRUE], {"email"})
  ELSE Outcome(store, nextCheckout, Ack(0, "Success"),
               [NoFx EXCEPT !.query = TRUE, !.adminEmail = TRUE,
                  !.customerEmail = store[orderId].customerInfo.email # "",
                  !.notified =
                     createNotification(<<>>, flt.notifyFail,
                       Notification("payment", "success", orderId, NoStr))],
               NotifyIo(flt))

(* The success branch after the status write: the customer email and its  *)
(* notification, the admin email, the payment notification, then the      *)
(* acknowledgement. Every error of these calls is caught on the spot.      *)
PaidOutcome(store, orderId, flt) ==
  LET hasEmail == store[orderId].customerInfo.email # ""
      emailSent == hasEmail /\ ~flt.emailFail
      afterEmail == IF emailSent
                    THEN createNotification(<<>>, flt.notifyFail,
                           Notification("email-sent", "info", orderId, NoStr))
                    ELSE <<>>
  IN Outcome(store, nextCheckout, Ack(0, "Success"),
             [NoFx EXCEPT
                !.query = TRUE,
                !.customerEmail = hasEmail,
                !.adminEmail = TRUE,
                !.notified =
                   createNotification(afterEmail, flt.notifyFail,
                     Notification("payment", "success", orderId, NoStr))],
             NotifyIo(flt)
               \cup (IF hasEmail /\ flt.emailFail THEN {"email"} ELSE {})
               \cup (IF flt.adminFail THEN {"adminEmail"} ELSE {}))

(* a branch that records a success without metadata as a failure *)
CallbackStatusNeedsMetadata(body) ==
  IF PaymentSucceeded(body.ResultCode) /\ body.CallbackMetadata.present
  THEN "paid" ELSE "payment_failed"

(* the status a callback writes *)
CallbackStatus(body) ==
  IF PaymentSucceeded(body.ResultCode) THEN "paid" ELSE "payment_failed"

(* the mpesaData a callback writes: the receipt, amount and phone of the   *)
(* metadata on success, the reason on failure                              *)
CallbackData(body, t) ==
  LET meta == body.CallbackMetadata
      receiptNumber == IF meta.present
                       THEN MetaValue(meta.Item, "MpesaReceiptNumber", "Unknown")
                       ELSE "Unknown"
      amount == IF meta.present THEN MetaValue(meta.Item, "Amount", 0) ELSE 0
      phoneNumber == IF meta.present
                     THEN MetaValue(meta.Item, "PhoneNumber", Unknown)
                     ELSE Unknown
  IN IF PaymentSucceeded(body.ResultCode)
     THEN [receiptNumber |-> receiptNumber, amount |-> amount,
           phoneNumber |-> phoneNumber, completedAt |-> t,
           mpesaCallback |-> body]
     ELSE [reason |-> body.ResultDesc, failedAt |-> t, mpesaCallback |-> body]

(* a failure branch that acknowledges without a notification *)
FailedOutcomeSilent(store, orderId, body, flt) ==
  Outcome(store, nextCheckout, Ack(0, "Success"),
          [NoFx EXCEPT !.query = TRUE], {})

(* the failure branch after the status write: the notification, then the   *)
(* acknowledgement                                                         *)
FailedOutcome(store, orderId, body, flt) ==
  Outcome(store, nextCheckout, Ack(0, "Success"),
          Notified([NoFx EXCEPT !.query = TRUE],
                   createNotification(<<>>, flt.notifyFail,
                     Notification("payment-failed", "error", orderId,
                                  body.ResultDesc))),
          NotifyIo(flt))

CallbackOutcome(body, t, flt) ==
  LET fxQuery == [NoFx EXCEPT !.query = TRUE]
      found == FindByCheckout(body.CheckoutRequestID)
      orderId == FirstKey(found)
      upd == updateOrderStatus(orders, orderId, CallbackStatus(body),
                               CallbackData(body, t), t, flt.throwAt)
      threw(u) == Outcome(u.store, nextCheckout,
                          Ack(1, "Callback processing failed"), fxQuery,
                          {flt.throwAt})
  IN IF ShapeError(body) # NoStr
     THEN Outcome(orders, nextCheckout, Ack(1, ShapeError(body)), NoFx, {})
     ELSE IF flt.throwAt = "query"
     THEN Outcome(orders, nextCheckout, Ack(1, "Callback processing failed"),
                  fxQuery, {"query"})
     ELSE IF found = {}
     THEN Outcome(orders, nextCheckout, Ack(1, "Order not found"), fxQuery, {})
     ELSE IF upd.threw THEN threw(upd)
     ELSE IF PaymentSucceeded(body.ResultCode)
     THEN PaidOutcome(upd.store, orderId, flt)
     ELSE FailedOutcome(upd.store, orderId, body, flt)

(* bodyParser.json() hands a body it cannot parse to the global error     *)
(* handler, which answers 500; any other body reaches the route's handler  *)
ErrorHandler == Http(500, "Internal server error")
CallbackRoute(body, t, flt) ==
  IF body.shape = "unparsed"
  THEN Outcome(orders, nextCheckout, ErrorHandler, NoFx, {})
  ELSE CallbackOutcome(body, t, flt)

Callback(bodies, faults, tmax) ==
  \E body \in bodies, t \in now..tmax, flt \in faults :
    Handle("callback", body, t, CallbackRoute(body, t, flt))

(* ------------- the EmailJS variant, src/unnamed/part_000 -------------- *)
(* Its store, token, phone and notification helpers and its order route    *)
(* are the text of src/server.js; its email helpers post to the EmailJS    *)
(* API and, like the SMTP ones, catch every error and return false.        *)
(* sendOrderConfirmationEmail: false without an email address or when the  *)
(* request fails                                                           *)
sendOrderConfirmationEmailJS(order, fail) ==
  IF order.customerInfo.email = "" THEN FALSE ELSE ~fail

(* sendAdminNotificationEmail *)
sendAdminNotificationEmailJS(order, fail) == ~fail

(* a success branch that writes the email notification whatever the email  *)
(* helper returned                                                         *)
PaidOutcomeEmailJSIgnoresResult(store, orderId, flt) ==
  LET order == store[orderId]
      hasEmail == order.customerInfo.email # ""
      emailSent == sendOrderConfirmationEmailJS(order, flt.emailFail)
      adminSent == sendAdminNotificationEmailJS(order, flt.adminFail)
      afterEmail == IF hasEmail
                    THEN createNotification(<<>>, flt.notifyFail,
                           Notification("email-sent", "info", orderId, NoStr))
                    ELSE <<>>
      sent == createNotification(afterEmail, flt.notifyFail,
                Notification("payment", "success", orderId, NoStr))
  IN Outcome(store, nextCheckout, Ack(0, "Success"),
             [NoFx EXCEPT !.query = TRUE, !.customerEmail = hasEmail,
                          !.adminEmail = TRUE, !.notified = sent],
             NotifyIo(flt)
               \cup (IF hasEmail /\ ~emailSent THEN {"email"} ELSE {})
               \cup (IF ~adminSent THEN {"adminEmail"} ELSE {}))

(* the success branch of the variant's callback after the status write *)
PaidOutcomeEmailJS(store, orderId, flt) ==
  LET order == store[orderId]
      hasEmail == order.customerInfo.email # ""
      emailSent == sendOrderConfirmationEmailJS(order, flt.emailFail)
      adminSent == sendAdminNotificationEmailJS(order, flt.adminFail)
      afterEmail == IF emailSent
                    THEN createNotification(<<>>, flt.notifyFail,
                           Notification("email-sent", "info", orderId, NoStr))
                    ELSE <<>>
      sent == createNotification(afterEmail, flt.notifyFail,
                Notification("payment", "success", orderId, NoStr))
  IN Outcome(store, nextCheckout, Ack(0, "Success"),
             [NoFx EXCEPT !.query = TRUE, !.customerEmail = hasEmail,
                          !.adminEmail = TRUE, !.notified = sent],
             NotifyIo(flt)
               \cup (IF hasEmail /\ ~emailSent THEN {"email"} ELSE {})
               \cup (IF ~adminSent THEN {"adminEmail"} ELSE {}))

(* the variant's POST /api/mpesa/callback *)
CallbackOutcomeEmailJS(body, t, flt) ==
  LET ack(code, desc, effects, failed) ==
        Outcome(orders, nextCheckout, Ack(code, desc), effects, failed)
      queried == [NoFx EXCEPT !.query = TRUE]
      found == FindByCheckout(body.CheckoutRequestID)
      orderId == FirstKey(found)
      upd == IF body.ResultCode = 0
             THEN updateOrderStatus(orders, orderId, "paid",
                    CallbackData(body, t), t, flt.throwAt)
             ELSE updateOrderStatus(orders, orderId, "payment_failed",
                    [reason |-> body.ResultDesc, failedAt |-> t,
                     mpesaCallback |-> body], t, flt.throwAt)
  IN IF body.shape = "unparsed"
     THEN ack(NoNum, NoStr, NoFx, {})
     ELSE IF body.shape # "stk"
     THEN ack(1, "No STK callback data", NoFx, {})
     ELSE IF body.CheckoutRequestID = 0
     THEN ack(1, "No CheckoutRequestID", NoFx, {})
     ELSE IF flt.throwAt = "query"
     THEN ack(1, "Callback processing failed", queried, {"query"})
     ELSE IF found = {}
     THEN ack(1, "Order not found", queried, {})
     ELSE IF upd.threw
     THEN Outcome(upd.store, nextCheckout, Ack(1, "Callback processing failed"),
                  queried, {flt.throwAt})
     ELSE IF body.ResultCode = 0
     THEN PaidOutcomeEmailJS(upd.store, orderId, flt)
     ELSE Outcome(upd.store, nextCheckout, Ack(0, "Success"),
                  Notified(queried, createNotification(<<>>, flt.notifyFail,
                    Notification("payment-failed", "error", orderId,
                                 body.ResultDesc))),
                  NotifyIo(flt))

(* the variant's bodyParser.json() and global error handler *)
CallbackRouteEmailJS(body, t, flt) ==
  IF body.shape = "unparsed"
  THEN Outcome(orders, nextCheckout, Http(500, "Internal server error"),
               NoFx, {})
  ELSE CallbackOutcomeEmailJS(body, t, flt)

(* the variant's POST /api/mpesa/stk-push *)
StkOutcomeEmailJS(body, t, flt) ==
  LET refuse(status, message) ==
        Outcome(orders, nextCheckout, Http(status, message), NoFx, {})
      tokenFx == [NoFx EXCEPT !.token = TRUE]
      phone == formatPhone(body.phoneNumber)
      pushFx == [tokenFx EXCEPT !.push = TRUE, !.PartyA = phone.value]
      failure(message, effects, failed) ==
        StkCatch(orders, nextCheckout, body, message, effects, failed, flt)
  IN CASE body.phoneNumber = <<>> -> refuse(400, "Phone number is required")
       [] body.phoneNumber # <<>> /\ body.amount <= 0
            -> refuse(400, "Valid amount is required")
       [] body.phoneNumber # <<>> /\ body.amount > 0 /\ body.orderId = 0
            -> refuse(400, "Order ID is required")
       [] OTHER ->
            IF flt.throwAt = "getOrder" THEN failure("store", NoFx, {"getOrder"})
            ELSE IF body.orderId \notin DOMAIN orders
            THEN refuse(404, "Order not found")
            ELSE IF flt.throwAt = "token" THEN failure("auth", tokenFx, {"token"})
            ELSE IF ~phone.ok THEN failure("phone", tokenFx, {})
            ELSE IF flt.throwAt = "stkpush"
            THEN failure("gateway", pushFx, {"stkpush"})
            ELSE PushCommitted(body, phone.value, nextCheckout, t, flt)

(* --------------------------- specification ---------------------------- *)
InitServer ==
  /\ orders = <<>>
  /\ notifications = 0
  /\ nextCheckout = 1
  /\ now = 0
  /\ req = NoReq
  /\ res = NoRes
  /\ fx = NoFx
  /\ io = {}
  /\ inflight = NoPush
  /\ deliveries = [d \in Deliveries |-> NoDelivery]
  /\ twin = NoTwin

(* the result slot of a formatPhone call that has not been made *)
NotCalled == [ok |-> FALSE, value |-> NoPhone, error |-> "not called", got |-> NoNum]

Init ==
  /\ InitServer
  /\ phoneIn = <<>>
  /\ phoneOut = NotCalled

(* Spec: every store, gateway, notification and email call succeeds, and  *)
(* the clock does not advance between the requests (no handler reads a     *)
(* stored timestamp)                                                       *)
SubmitOrder == CreateOrder(OrderBodies, {NoFault}, now)
ReadOrder == GetOrder({NoFault})
InitiatePush == StkPush(StkBodies, {NoFault}, now)
ApplyCallback == Callback(CallbackBodies, {NoFault}, now)

Next == SubmitOrder \/ ReadOrder \/ InitiatePush \/ ApplyCallback

Spec == Init /\ [][Next]_vars

(* SpecFaults: the same handlers when their I/O calls may fail; at most    *)
(* SliceOrders orders, SlicePush accepted pushes and SliceNotifs           *)
(* notifications, the clock frozen                                         *)
InSlice ==
  /\ Len(orders') <= SliceOrders
  /\ nextCheckout' <= SlicePush + 1
  /\ notifications' <= SliceNotifs

FaultStkBodies ==
  { StkBody(P0712345678, 1500, o) : o \in 1..(SliceOrders + 1) }
  \cup { StkBody(P12345, 1500, 1) }
FaultCallbackBodies ==
  {b \in CallbackBodies : b.shape = "stk" /\ b.CheckoutRequestID # 0}
(* bodies the shape checks refuse, and a body that is not JSON *)
MalformedBodies ==
  {b \in CallbackBodies : b.shape # "stk" \/ b.CheckoutRequestID = 0}
  \cup {[NoBody EXCEPT !.shape = "unparsed"]}
(* callbacks with another failure code of the gateway *)
TimeoutBodies ==
  { [shape |-> "stk", CheckoutRequestID |-> c, ResultCode |-> 1037,
     ResultDesc |-> DescTimeout, CallbackMetadata |-> NoMeta] :
       c \in 1..MaxPush }

SubmitOrderF == CreateOrder(GoodBodies, OrderFaults, now) /\ InSlice
ReadOrderF == GetOrder(GetFaults)
InitiatePushF == StkPush(FaultStkBodies, StkFaults, now) /\ InSlice
ApplyCallbackF ==
  /\ Callback(FaultCallbackBodies \cup MalformedBodies, CallbackFaults, now)
  /\ InSlice

NextFaults == SubmitOrderF \/ ReadOrderF \/ InitiatePushF \/ ApplyCallbackF

SpecFaults == Init /\ [][NextFaults]_vars

(* SpecCallbackFaults: SpecFaults with the failing calls in the callback    *)
(* only, and every callback body                                           *)
SubmitOrderC == CreateOrder(GoodBodies, {NoFault}, now) /\ InSlice
InitiatePushC == StkPush(FaultStkBodies, {NoFault}, now) /\ InSlice

NextCallbackFaults == SubmitOrderC \/ InitiatePushC \/ ApplyCallbackF

SpecCallbackFaults == Init /\ [][NextCallbackFaults]_vars

(* SpecPushFaults: SpecFaults with the failing calls in order creation and *)
(* push initiation. No email is sent by these two handlers: the orders     *)
(* are submitted without an email address.                                 *)
SubmitOrderNoEmail ==
  CreateOrder({GoodBody(P0712345678, "")}, OrderFaults, now) /\ InSlice
ApplyCallbackP == Callback(FaultCallbackBodies, {NoFault}, now) /\ InSlice

NextPushFaults == SubmitOrderNoEmail \/ InitiatePushF \/ ApplyCallbackP

SpecPushFaults == Init /\ [][NextPushFaults]_vars

(* SpecTime: the same handlers while the clock advances; well-formed      *)
(* requests within the same slice, no failing call                         *)
SubmitOrderT == CreateOrder(GoodBodies, {NoFault}, MaxClock) /\ InSlice
InitiatePushT == StkPush(FaultStkBodies, {NoFault}, MaxClock) /\ InSlice
ApplyCallbackT ==
  /\ Callback(FaultCallbackBodies \cup TimeoutBodies, {NoFault}, MaxClock)
  /\ InSlice

NextTime == SubmitOrderT \/ InitiatePushT \/ ApplyCallbackT

SpecTime == Init /\ [][NextTime]_vars

(* SpecPhone: formatPhone on every input of PhoneInputs, called directly   *)
(* and through POST /api/orders and POST /api/mpesa/stk-push               *)
TailDigits == Sub9 \o <<"9", "0", "1", "2", "3", "4", "5">>
RECURSIVE Strings(_, _)
Strings(alphabet, n) ==
  IF n = 0 THEN {<<>>}
  ELSE LET shorter == Strings(alphabet, n - 1)
       IN shorter \cup {Append(s, c) : s \in shorter, c \in alphabet}
PhoneInputs ==
  { sign \o head \o sep \o SubSeq(TailDigits, 1, k) :
      sign \in {<<>>, <<"+">>}, head \in Strings({"0", "2", "5", "4"}, MaxHead),
      sep \in {<<>>, <<" ">>}, k \in 0..MaxTail }
  \cup {P12345}

InitPhone ==
  /\ InitServer
  /\ phoneIn \in PhoneInputs
  /\ phoneOut = NotCalled

CallFormatPhone ==
  /\ phoneOut = NotCalled
  /\ phoneOut' = formatPhone(phoneIn)
  /\ UNCHANGED <<orders, notifications, nextCheckout, now, req, res, fx, io, phoneIn,
               inflight, deliveries, twin>>

SubmitOrderP ==
  /\ req.op = "none"
  /\ CreateOrder({GoodBody(phoneIn, ""), GoodBody(P0712345678, "")}, {NoFault}, now)

InitiatePushP ==
  /\ req.op # "stk-push"
  /\ StkPush({StkBody(phoneIn, 1500, 1)}, {NoFault}, now)

(* formatPhone called on the value it returned *)
CallFormatPhoneAgain ==
  /\ phoneOut.ok
  /\ phoneIn # phoneOut.value
  /\ phoneIn' = phoneOut.value
  /\ phoneOut' = formatPhone(phoneOut.value)
  /\ UNCHANGED <<orders, notifications, nextCheckout, now, req, res, fx, io,
                 inflight, deliveries, twin>>

NextPhone ==
  CallFormatPhone \/ CallFormatPhoneAgain \/ SubmitOrderP \/ InitiatePushP

SpecPhone == InitPhone /\ [][NextPhone]_vars

(* SpecRace: the push handler suspended between the gateway's acceptance  *)
(* (await axios.post) and the payment_pending update (await                *)
(* updateOrderStatus), while callbacks are handled; no failing call, the   *)
(* clock frozen, the bounds of the slice                                   *)
SubmitOrderR == CreateOrder(GoodBodies, {NoFault}, now) /\ InSlice

(* a push the gateway does not accept runs to its response *)
RefusePushR ==
  /\ inflight.pc = "idle"
  /\ \E body \in FaultStkBodies :
       /\ StkOutcome(body, now, NoFault).res.status # 200
       /\ Handle("stk-push", body, now, StkOutcome(body, now, NoFault))
  /\ InSlice

(* the gateway answers the request: its response carries the next          *)
(* CheckoutRequestID; the handler resumes later                            *)
AcceptPushR ==
  /\ inflight.pc = "idle"
  /\ nextCheckout <= MaxPush
  /\ \E body \in FaultStkBodies :
       /\ StkOutcome(body, now, NoFault).res.status = 200
       /\ inflight' = [pc |-> "accepted", body |-> body,
                       phone |-> formatPhone(body.phoneNumber).value,
                       cid |-> nextCheckout, cur |-> NoMpesaData]
  /\ nextCheckout' = nextCheckout + 1
  /\ UNCHANGED <<orders, notifications, now, req, res, fx, io, phoneIn,
                 phoneOut, deliveries, twin>>
  /\ InSlice

(* a push that stores the payment_pending status without the mpesaData *)
CommitPushStatusOnly ==
  /\ inflight.pc = "accepted"
  /\ Respond("stk-push", inflight.body, now,
       Outcome([orders EXCEPT ![inflight.body.orderId].status = "payment_pending"],
               nextCheckout,
               [Http(200, "STK Push initiated") EXCEPT
                  !.CheckoutRequestID = inflight.cid],
               [NoFx EXCEPT !.token = TRUE, !.push = TRUE], {}))
  /\ inflight' = NoPush
  /\ UNCHANGED <<deliveries, twin>>
  /\ InSlice

(* the handler resumes: the payment_pending update and the response *)
CommitPushR ==
  /\ inflight.pc = "accepted"
  /\ Respond("stk-push", inflight.body, now,
       [PushCommitted(inflight.body, inflight.phone, inflight.cid, now, NoFault)
          EXCEPT !.nextCheckout = nextCheckout])
  /\ inflight' = NoPush
  /\ UNCHANGED <<deliveries, twin>>
  /\ InSlice

ApplyCallbackR == Callback(FaultCallbackBodies, {NoFault}, now) /\ InSlice

NextRace ==
  SubmitOrderR \/ RefusePushR \/ AcceptPushR \/ CommitPushR \/ ApplyCallbackR

SpecRace == Init /\ [][NextRace]_vars

(* SpecDup: one callback payload delivered twice, the two handlers         *)
(* interleaved at their awaits: the query by CheckoutRequestID, the read   *)
(* of the current order, the update, and the rest up to the response.      *)
(* Orders and pushes are handled while no delivery is under way; no        *)
(* failing call, the clock frozen, the bounds of the slice.                *)
Quiet == \A d \in Deliveries : deliveries[d].pc = "idle"
SubmitOrderD ==
  Quiet /\ CreateOrder({GoodBody(P0712345678, "")}, {NoFault}, now) /\ InSlice
InitiatePushD == Quiet /\ StkPush(FaultStkBodies, {NoFault}, now) /\ InSlice
ApplyCallbackD == Quiet /\ Callback(FaultCallbackBodies, {NoFault}, now) /\ InSlice

Same == <<orders, notifications, nextCheckout, now, req, res, fx, io,
          phoneIn, phoneOut, inflight, twin>>

(* the gateway sends the same payload twice *)
Deliver ==
  /\ Quiet
  /\ \E body \in FaultCallbackBodies :
       deliveries' = [d \in Deliveries |-> [NoDelivery EXCEPT !.pc = "query",
                                                              !.body = body]]
  /\ UNCHANGED Same

(* await ordersRef.orderByChild(..).equalTo(CheckoutRequestID).once(..) *)
Query(d) ==
  LET found == FindByCheckout(deliveries[d].body.CheckoutRequestID)
  IN /\ deliveries[d].pc = "query"
     /\ IF found = {}
        THEN /\ Respond("callback", deliveries[d].body, now,
                  Outcome(orders, nextCheckout, Ack(1, "Order not found"),
                          [NoFx EXCEPT !.query = TRUE], {}))
             /\ deliveries' = [deliveries EXCEPT ![d].pc = "done"]
        ELSE /\ deliveries' = [deliveries EXCEPT ![d].pc = "read",
                                 ![d].orderId = FirstKey(found), ![d].t = now]
             /\ UNCHANGED <<orders, notifications, nextCheckout, now, req, res,
                            fx, io, phoneIn, phoneOut>>
     /\ UNCHANGED <<inflight, twin>>

(* updateOrderStatus: await db.ref(`orders/${orderId}`).once('value') *)
ReadCurrent(d) ==
  /\ deliveries[d].pc = "read"
  /\ deliveries' = [deliveries EXCEPT ![d].pc = "write",
                      ![d].cur = orders[deliveries[d].orderId].mpesaData]
  /\ UNCHANGED Same

(* updateOrderStatus: await db.ref(`orders/${orderId}`).update(updates) *)
WriteUpdate(d) ==
  LET dl == deliveries[d]
  IN /\ dl.pc = "write"
     /\ orders' = WriteStatus(orders, dl.orderId, CallbackStatus(dl.body),
                    MergeMpesa(dl.cur, CallbackData(dl.body, dl.t)), dl.t)
     /\ deliveries' = [deliveries EXCEPT ![d].pc = "finish"]
     /\ UNCHANGED <<notifications, nextCheckout, now, req, res, fx, io,
                    phoneIn, phoneOut, inflight, twin>>

(* the re-read, the emails, the notifications and the acknowledgement *)
Acknowledge(d) ==
  LET dl == deliveries[d]
  IN /\ dl.pc = "finish"
     /\ Respond("callback", dl.body, now,
          IF PaymentSucceeded(dl.body.ResultCode)
          THEN PaidOutcome(orders, dl.orderId, NoFault)
          ELSE FailedOutcome(orders, dl.orderId, dl.body, NoFault))
     /\ deliveries' = [deliveries EXCEPT ![d].pc = "done"]
     /\ UNCHANGED <<inflight, twin>>
Finish(d) == Acknowledge(d) /\ InSlice

(* both handlers have returned *)
Settle ==
  /\ \A d \in Deliveries : deliveries[d].pc = "done"
  /\ deliveries' = [d \in Deliveries |-> NoDelivery]
  /\ UNCHANGED Same

QueryD == \E d \in Deliveries : Query(d)
ReadCurrentD == \E d \in Deliveries : ReadCurrent(d)
WriteUpdateD == \E d \in Deliveries : WriteUpdate(d)
FinishD == \E d \in Deliveries : Finish(d)

NextDup ==
  \/ SubmitOrderD \/ InitiatePushD \/ ApplyCallbackD
  \/ Deliver \/ QueryD \/ ReadCurrentD \/ WriteUpdateD \/ FinishD \/ Settle

SpecDup == Init /\ [][NextDup]_vars

(* SpecMeta: pushes for amounts other than the order's total and success  *)
(* callbacks with every metadata list of Metas and PartialMetas; no        *)
(* failing call, the clock frozen, the bounds of the slice                 *)
MetaStkBodies == FaultStkBodies \cup {StkBody(P0712345678, 700, 1)}
MetaCallbackBodies ==
  FaultCallbackBodies
  \cup { [shape |-> "stk", CheckoutRequestID |-> c, ResultCode |-> 0,
          ResultDesc |-> DescOk, CallbackMetadata |-> m] :
            c \in 1..MaxPush, m \in PartialMetas }
SubmitOrderM == CreateOrder(GoodBodies, {NoFault}, now) /\ InSlice
InitiatePushM == StkPush(MetaStkBodies, {NoFault}, now) /\ InSlice
ApplyCallbackM == Callback(MetaCallbackBodies, {NoFault}, now) /\ InSlice

NextMeta == SubmitOrderM \/ InitiatePushM \/ ApplyCallbackM

SpecMeta == Init /\ [][NextMeta]_vars

(* SpecLost: a push for an order and a callback handled concurrently,     *)
(* both interleaved at the awaits of updateOrderStatus: the read of the    *)
(* current order and the update. Up to MaxPush pushes are accepted; the    *)
(* orders are submitted without an email address; no failing call, the     *)
(* clock frozen.                                                           *)
NoHandler == inflight.pc = "idle" /\ deliveries["first"].pc = "idle"
SubmitOrderL ==
  /\ NoHandler
  /\ CreateOrder({GoodBody(P0712345678, "")}, {NoFault}, now)
  /\ Len(orders') <= SliceOrders

(* a push the gateway does not accept runs to its response *)
RefusePushL ==
  /\ inflight.pc = "idle"
  /\ \E body \in FaultStkBodies :
       /\ StkOutcome(body, now, NoFault).res.status # 200
       /\ Handle("stk-push", body, now, StkOutcome(body, now, NoFault))

(* the gateway answers the request with the next CheckoutRequestID *)
AcceptPushL ==
  /\ inflight.pc = "idle"
  /\ nextCheckout <= MaxPush
  /\ \E body \in FaultStkBodies :
       /\ StkOutcome(body, now, NoFault).res.status = 200
       /\ inflight' = [pc |-> "accepted", body |-> body,
                       phone |-> formatPhone(body.phoneNumber).value,
                       cid |-> nextCheckout, cur |-> NoMpesaData]
  /\ nextCheckout' = nextCheckout + 1
  /\ UNCHANGED <<orders, notifications, now, req, res, fx, io, phoneIn,
                 phoneOut, deliveries, twin>>

(* updateOrderStatus of the push: await orderRef.once('value') *)
ReadPushL ==
  /\ inflight.pc = "accepted"
  /\ inflight' = [inflight EXCEPT !.pc = "read",
                    !.cur = orders[inflight.body.orderId].mpesaData]
  /\ UNCHANGED <<orders, notifications, nextCheckout, now, req, res, fx, io,
                 phoneIn, phoneOut, deliveries, twin>>

(* updateOrderStatus of the push: await orderRef.update(updates), then the *)
(* notification and the 200 response                                       *)
WritePushL ==
  /\ inflight.pc = "read"
  /\ Respond("stk-push", inflight.body, now,
       Outcome(WriteStatus(orders, inflight.body.orderId, "payment_pending",
                 MergeMpesa(inflight.cur,
                   PushData(inflight.body, inflight.phone, inflight.cid, now)),
                 now),
               nextCheckout,
               [Http(200, "STK Push initiated") EXCEPT
                  !.CheckoutRequestID = inflight.cid],
               Notified([NoFx EXCEPT !.token = TRUE, !.push = TRUE,
                                     !.PartyA = inflight.phone],
                        <<Notification("stk-sent", "info",
                                       inflight.body.orderId, NoStr)>>),
               {}))
  /\ inflight' = NoPush
  /\ UNCHANGED <<deliveries, twin>>

(* one delivery of a callback *)
DeliverL ==
  /\ deliveries["first"].pc = "idle"
  /\ \E body \in FaultCallbackBodies :
       deliveries' = [deliveries EXCEPT
                        !["first"] = [NoDelivery EXCEPT !.pc = "query",
                                                        !.body = body]]
  /\ UNCHANGED Same
QueryL == Query("first")
ReadCurrentL == ReadCurrent("first")
WriteUpdateL == WriteUpdate("first")
AcknowledgeL == Acknowledge("first")
ReturnL ==
  /\ deliveries["first"].pc = "done"
  /\ deliveries' = [deliveries EXCEPT !["first"] = NoDelivery]
  /\ UNCHANGED Same

NextLost ==
  \/ SubmitOrderL \/ RefusePushL \/ AcceptPushL \/ ReadPushL \/ WritePushL
  \/ DeliverL \/ QueryL \/ ReadCurrentL \/ WriteUpdateL \/ AcknowledgeL
  \/ ReturnL

SpecLost == Init /\ [][NextLost]_vars

(* SpecTwin: every request is handled by src/server.js and, from the same  *)
(* state with the same outcome of every store, gateway, notification and   *)
(* email call, by the EmailJS variant, whose result is kept in twin. The   *)
(* orders have an email address; the clock frozen, the bounds of the slice *)
HandleBoth(op, body, t, out, other) ==
  /\ Respond(op, body, t, out)
  /\ twin' = other
  /\ UNCHANGED <<inflight, deliveries>>

TwinStkFaults ==
  {[NoFault EXCEPT !.throwAt = a] : a \in {"none", "token", "stkpush", "uosWrite"}}
SubmitOrderW ==
  /\ \E body \in {GoodBody(PPlus254712345678, "jane@example.com")} :
       HandleBoth("orders", body, now, OrderOutcome(body, now, NoFault),
                  OrderOutcome(body, now, NoFault))
  /\ InSlice
InitiatePushW ==
  /\ \E body \in FaultStkBodies, flt \in TwinStkFaults :
       HandleBoth("stk-push", body, now, StkOutcome(body, now, flt),
                  StkOutcomeEmailJS(body, now, flt))
  /\ InSlice
ApplyCallbackW ==
  /\ \E body \in FaultCallbackBodies \cup MalformedBodies,
        flt \in CallbackFaults :
       HandleBoth("callback", body, now, CallbackRoute(body, now, flt),
                  CallbackRouteEmailJS(body, now, flt))
  /\ InSlice

NextTwin == SubmitOrderW \/ InitiatePushW \/ ApplyCallbackW

SpecTwin == Init /\ [][NextTwin]_vars

(* ============================ properties ============================== *)
Terminal == {"paid", "payment_failed"}
Ref(o) == orders[o].mpesaData.checkoutRequestId

(* the request just handled is a well-formed callback *)
WellFormedCallback ==
  /\ req'.op = "callback"
  /\ req'.body.shape = "stk"
  /\ req'.body.CheckoutRequestID # 0

(* ... whose CheckoutRequestID is the paymentReference of order o *)
CallbackFor(o) == WellFormedCallback /\ req'.body.CheckoutRequestID = Ref(o)

(* ... whose CheckoutRequestID is no stored order's paymentReference *)
UnmatchedCallback ==
  /\ WellFormedCallback
  /\ \A o \in DOMAIN orders : Ref(o) # req'.body.CheckoutRequestID

Is254Form(p) ==
  /\ Len(p) = 12
  /\ \A i \in 1..Len(p) : p[i] \in Digits
  /\ SubSeq(p, 1, 3) = C254

(* C1: once an order is paid or payment_failed through a callback,         *)
(* redelivering the identical callback payload leaves its status, its      *)
(* mpesaData and the number of stored notifications unchanged.             *)
C1_IdempotentCallback ==
  [][\A o \in DOMAIN orders :
       (/\ orders[o].status \in Terminal
        /\ req'.op = "callback"
        /\ req'.body = orders[o].mpesaData.mpesaCallback)
       => /\ orders'[o].status = orders[o].status
          /\ orders'[o].mpesaData = orders[o].mpesaData
          /\ notifications' = notifications]_vars

(* C2: a paid order carries the code-0 callback that paid it, matched by   *)
(* its checkoutRequestId, and an order becomes paid only in a step that    *)
(* handles a callback with ResultCode 0 whose CheckoutRequestID equals the *)
(* order's stored checkoutRequestId.                                       *)
PaidByMatchedCallback ==
  \A o \in DOMAIN orders :
    orders[o].status = "paid"
    => /\ orders[o].mpesaData.mpesaCallback.ResultCode = 0
       /\ orders[o].mpesaData.mpesaCallback.CheckoutRequestID = Ref(o)
       /\ Ref(o) # 0
BecomesPaid(o) ==
  /\ orders'[o].status = "paid"
  /\ o \in DOMAIN orders => orders[o].status # "paid"
C2_NoPrematureSuccess ==
  /\ []PaidByMatchedCallback
  /\ [][\A o \in DOMAIN orders' :
          BecomesPaid(o)
          => /\ o \in DOMAIN orders
             /\ CallbackFor(o)
             /\ req'.body.ResultCode = 0]_vars
C2_Witness ==
  \E o \in DOMAIN orders :
    /\ orders[o].status = "paid"
    /\ req.op = "callback"
    /\ req.body.CheckoutRequestID = Ref(o)
    /\ \E p \in DOMAIN orders : p # o /\ orders[p].status = "payment_pending"

(* C3: every change of an order's status is pending -> payment_pending,    *)
(* payment_pending -> paid or payment_pending -> payment_failed.           *)
Forward ==
  { <<"pending", "payment_pending">>, <<"payment_pending", "paid">>,
    <<"payment_pending", "payment_failed">> }
C3_StatusOnlyForward ==
  [][\A o \in DOMAIN orders :
       orders'[o].status # orders[o].status
       => <<orders[o].status, orders'[o].status>> \in Forward]_vars

(* C4: a callback matched to an order that is already paid or              *)
(* payment_failed is acknowledged with ResultCode 0 and does not change    *)
(* the order's status.                                                     *)
C4_IdempotencyCheck ==
  [][\A o \in DOMAIN orders :
       (orders[o].status \in Terminal /\ CallbackFor(o))
       => /\ res'.ResultCode = 0
          /\ orders'[o].status = orders[o].status]_vars

(* C5: a well-formed callback whose CheckoutRequestID matches no stored    *)
(* order leaves every order unchanged, writes no notification and sends    *)
(* no email.                                                               *)
C5_UnmatchedMutatesNothing ==
  [][UnmatchedCallback
     => /\ orders' = orders
        /\ notifications' = notifications
        /\ fx'.notified = <<>>
        /\ ~fx'.customerEmail /\ ~fx'.adminEmail]_vars
C5_Witness ==
  /\ req.op = "callback"
  /\ res.ResultDesc = "Order not found"
  /\ \E o \in DOMAIN orders : Ref(o) \notin {0, req.body.CheckoutRequestID}

(* C6: a well-formed callback whose CheckoutRequestID matches no stored    *)
(* order is answered with ResultCode 0.                                    *)
C6_UnmatchedAckSuccess ==
  [][UnmatchedCallback => res'.ResultCode = 0]_vars

(* C7: POST /api/orders with missing or empty items, total <= 0 or a       *)
(* missing name, phone or delivery address answers 400 and adds no order   *)
(* and no notification.                                                    *)
FailsGate(body) ==
  \/ ~body.items.present \/ body.items.list = <<>>
  \/ body.total <= 0
  \/ body.customerInfo.name = ""
  \/ body.customerInfo.phone = <<>>
  \/ body.customerInfo.deliveryAddress = ""
C7_ValidationGate ==
  [][(req'.op = "orders" /\ FailsGate(req'.body))
     => /\ res'.status = 400
        /\ orders' = orders
        /\ notifications' = notifications
        /\ fx'.notified = <<>>]_vars
C7_Witness ==
  /\ req.op = "orders"
  /\ req.body.total = -5
  /\ res.status = 400
  /\ Len(orders) = 1

(* C8: formatPhone maps "0712345678", "712345678", "254712345678" and      *)
(* "+254712345678" to "254712345678" and rejects "12345" with the error    *)
(* that names 8, the digit count after formatting.                         *)
C8_PhoneDeterminism ==
  phoneOut # NotCalled
  => /\ phoneIn \in {P0712345678, P712345678, P254712345678, PPlus254712345678}
        => phoneOut.ok /\ phoneOut.value = P254712345678
     /\ phoneIn = P12345
        => ~phoneOut.ok /\ phoneOut.error = "length" /\ phoneOut.got = 8
C8_Witness ==
  phoneIn = P0712345678 /\ phoneOut.ok /\ phoneOut.value = P254712345678

(* C9: formatPhone throws or returns 12 digits that begin with 254; every  *)
(* stored customerInfo.phone and every PartyA sent to the gateway has that *)
(* form.                                                                   *)
C9_PhoneForm ==
  /\ phoneOut # NotCalled
     => \/ ~phoneOut.ok /\ phoneOut.error \in {"required", "length"}
        \/ phoneOut.ok /\ Is254Form(phoneOut.value)
  /\ \A o \in DOMAIN orders : Is254Form(orders[o].customerInfo.phone)
  /\ fx.push => Is254Form(fx.PartyA)
C9_Witness ==
  /\ phoneIn \notin {P0712345678, P712345678, P254712345678, PPlus254712345678}
  /\ phoneOut.ok
  /\ fx.push /\ fx.PartyA = phoneOut.value
  /\ \E o \in DOMAIN orders : orders[o].customerInfo.phone = phoneOut.value

(* C10: an accepted push for an order (total 1500, one item) with phone    *)
(* "0712345678" and amount 1500 leaves it payment_pending with the         *)
(* gateway's CheckoutRequestID stored; a callback with that id, code 0 and *)
(* the metadata ABC123 / 1500 / 254712345678 then leaves it paid with      *)
(* receiptNumber "ABC123".                                                 *)
ScenarioOrder(o) ==
  /\ o \in DOMAIN orders
  /\ orders[o].total = 1500
  /\ Len(orders[o].items) = 1
C10_EndToEnd ==
  [][\A o \in DOMAIN orders :
       /\ (/\ ScenarioOrder(o)
           /\ req'.op = "stk-push"
           /\ req'.body = StkBody(P0712345678, 1500, o)
           /\ res'.status = 200)
          => /\ orders'[o].status = "payment_pending"
             /\ res'.CheckoutRequestID # 0
             /\ orders'[o].mpesaData.checkoutRequestId = res'.CheckoutRequestID
       /\ (/\ ScenarioOrder(o)
           /\ orders[o].status = "payment_pending"
           /\ CallbackFor(o)
           /\ req'.body.ResultCode = 0
           /\ req'.body.CallbackMetadata = MetaFull)
          => /\ orders'[o].status = "paid"
             /\ orders'[o].mpesaData.receiptNumber = "ABC123"]_vars
C10_Witness ==
  \E o \in DOMAIN orders :
    /\ ScenarioOrder(o)
    /\ orders[o].status = "paid"
    /\ orders[o].mpesaData.receiptNumber = "ABC123"
    /\ orders[o].mpesaData.stkPushSentAt # NoNum
    /\ req.op = "callback"
    /\ req.body.CheckoutRequestID = Ref(o)
    /\ res.ResultCode = 0

(* C11: for a callback matched to an order in payment_pending, the order   *)
(* becomes paid exactly when ResultCode is 0 and payment_failed for every  *)
(* other code; a failed order records the callback's ResultDesc as         *)
(* mpesaData.reason, with the time of the failure.                         *)
C11_ResultCodeBranch ==
  [][\A o \in DOMAIN orders :
       (orders[o].status = "payment_pending" /\ CallbackFor(o))
       => /\ (req'.body.ResultCode = 0) <=> (orders'[o].status = "paid")
          /\ (req'.body.ResultCode # 0)
             => /\ orders'[o].status = "payment_failed"
                /\ orders'[o].mpesaData.reason = req'.body.ResultDesc
                /\ orders'[o].mpesaData.failedAt = now']_vars
C11_Witness ==
  \E o \in DOMAIN orders :
    /\ req.op = "callback"
    /\ req.body.CheckoutRequestID = Ref(o)
    /\ req.body.ResultCode = 1
    /\ orders[o].status = "payment_failed"
    /\ orders[o].mpesaData.reason = DescCancelled
    /\ orders[o].mpesaData.stkPushSentAt < orders[o].mpesaData.failedAt

(* C12: every callback request, whatever its payload and whatever store,   *)
(* notification or email call fails, is answered with HTTP 200 and a       *)
(* ResultCode of 0 or 1.                                                   *)
C12_AlwaysAcknowledged ==
  req.op = "callback" => res.status = 200 /\ res.ResultCode \in {0, 1}

(* C13: a parsed callback body without Body.stkCallback, or without        *)
(* CheckoutRequestID, is acknowledged with ResultCode 1 and causes no      *)
(* orders query, no order change, no notification and no email.            *)
C13_ShapeCheck ==
  [][(/\ req'.op = "callback"
      /\ \/ req'.body.shape = "nostk"
         \/ req'.body.shape = "stk" /\ req'.body.CheckoutRequestID = 0)
     => /\ res'.status = 200
        /\ res'.ResultCode = 1
        /\ ~fx'.query
        /\ orders' = orders
        /\ notifications' = notifications
        /\ fx'.notified = <<>>
        /\ ~fx'.customerEmail /\ ~fx'.adminEmail]_vars
C13_Witness ==
  /\ req.op = "callback"
  /\ req.body.shape = "stk"
  /\ req.body.CheckoutRequestID = 0
  /\ res.ResultCode = 1
  /\ \E o \in DOMAIN orders : orders[o].status = "payment_pending"

(* C14: when the status write of a matched callback succeeded, a failing   *)
(* customer email, admin email or notification write leaves the written    *)
(* status in place and the acknowledgement is still ResultCode 0.          *)
SideCalls == {"notify", "email", "adminEmail"}
C14_SideFailuresHarmless ==
  [][\A o \in DOMAIN orders :
       (CallbackFor(o) /\ io' # {} /\ io' \subseteq SideCalls)
       => /\ res'.status = 200
          /\ res'.ResultCode = 0
          /\ orders'[o].status =
               IF req'.body.ResultCode = 0 THEN "paid" ELSE "payment_failed"]_vars
C14_Witness ==
  \E o \in DOMAIN orders :
    /\ req.op = "callback"
    /\ req.body.CheckoutRequestID = Ref(o)
    /\ io = {"email"}
    /\ res.ResultCode = 0
    /\ orders[o].status = "paid"

(* C15: a failing notification write fails neither order creation nor push *)
(* initiation: POST /api/orders still answers 201 with the stored order,   *)
(* and an accepted push still answers 200 with the order payment_pending.  *)
C15_NotificationBestEffort ==
  [][/\ (req'.op = "orders" /\ "notify" \in io')
        => /\ res'.status = 201
           /\ Len(orders') = Len(orders) + 1
           /\ res'.orderId = Len(orders')
           /\ orders'[res'.orderId].status = "pending"
     /\ (req'.op = "stk-push" /\ fx'.push /\ io' = {"notify"})
        => /\ res'.status = 200
           /\ orders'[req'.body.orderId].status = "payment_pending"
           /\ orders'[req'.body.orderId].mpesaData.checkoutRequestId
                = res'.CheckoutRequestID]_vars
C15_Witness ==
  /\ req.op = "stk-push"
  /\ io = {"notify"}
  /\ fx.notified = <<>>
  /\ res.status = 200
  /\ orders[req.body.orderId].status = "payment_pending"

(* the request just handled is a push whose three fields are present *)
PushWithFields ==
  /\ req'.op = "stk-push"
  /\ req'.body.phoneNumber # <<>>
  /\ req'.body.amount > 0
  /\ req'.body.orderId # 0

(* C16: a push for an order id that is not in the store answers 404,       *)
(* acquires no token, sends no push request, changes no order and writes   *)
(* no notification.                                                        *)
C16_MissingOrderNoGatewayCall ==
  [][(PushWithFields /\ req'.body.orderId \notin DOMAIN orders)
     => /\ res'.status = 404
        /\ ~fx'.token /\ ~fx'.push
        /\ orders' = orders
        /\ notifications' = notifications
        /\ fx'.notified = <<>>]_vars
C16_Witness ==
  /\ req.op = "stk-push"
  /\ res.status = 404
  /\ orders # <<>>
  /\ req.body.orderId \notin DOMAIN orders
  /\ formatPhone(req.body.phoneNumber).ok

(* C17: a push whose phone number does not normalize to 12 digits makes no *)
(* gateway call, neither the token request nor the push request, and       *)
(* leaves every order as it was.                                           *)
C17_BadPhoneNoGatewayCall ==
  [][(req'.op = "stk-push" /\ ~formatPhone(req'.body.phoneNumber).ok)
     => /\ ~fx'.token /\ ~fx'.push
        /\ orders' = orders]_vars

(* C18: a push answers 200 only when the gateway accepted the request, 400 *)
(* when a field is missing, the amount is not positive or the phone does   *)
(* not normalize, 404 when the order is missing, 500 when a gateway call   *)
(* fails.                                                                  *)
C18_PushStatusCodes ==
  [][/\ (req'.op = "stk-push" /\ res'.status = 200)
        => fx'.push /\ io' \subseteq {"notify"}
     /\ (req'.op = "stk-push" /\ ~PushWithFields) => res'.status = 400
     /\ (PushWithFields /\ req'.body.orderId \notin DOMAIN orders)
        => res'.status = 404
     /\ (/\ PushWithFields
         /\ req'.body.orderId \in DOMAIN orders
         /\ ~formatPhone(req'.body.phoneNumber).ok)
        => res'.status = 400
     /\ (req'.op = "stk-push" /\ io' \cap {"token", "stkpush"} # {})
        => res'.status = 500]_vars

(* C19: whenever a push answers 200, the store holds the order in          *)
(* payment_pending with the CheckoutRequestID returned by the gateway as   *)
(* its checkoutRequestId.                                                  *)
C19_ReferenceBeforeSuccess ==
  (req.op = "stk-push" /\ res.status = 200)
  => /\ fx.push
     /\ res.CheckoutRequestID # 0
     /\ req.body.orderId \in DOMAIN orders
     /\ orders[req.body.orderId].status = "payment_pending"
     /\ Ref(req.body.orderId) = res.CheckoutRequestID
C19_Witness ==
  /\ req.op = "stk-push"
  /\ res.status = 200
  /\ io = {}
  /\ Ref(req.body.orderId) = res.CheckoutRequestID
  /\ fx.notified # <<>>

StoreCalls == {"getOrder", "uosRead", "uosWrite", "uosReread"}
C22_StoreFailureSurfaced ==
  (req.op = "stk-push" /\ io \cap StoreCalls # {}) => res.status = 500

(* the request just handled is an order submission that passes the gate   *)
(* and whose phone normalizes                                              *)
ValidSubmission ==
  /\ req'.op = "orders"
  /\ ValidateOrder(req'.body) = "ok"
  /\ formatPhone(req'.body.customerInfo.phone).ok

(* C23: a valid order submission answers 201 and adds exactly one order:   *)
(* its status is pending, its id is new, it has no checkoutRequestId, the  *)
(* response carries its id, and the orders stored before are untouched.    *)
C23_OrderCreation ==
  [][ValidSubmission
     => LET n == Len(orders')
        IN /\ res'.status = 201
           /\ n = Len(orders) + 1
           /\ \A o \in DOMAIN orders :
                orders'[o] = orders[o] /\ orders[o].id # orders'[n].id
           /\ orders'[n].status = "pending"
           /\ orders'[n].mpesaData = NoMpesaData
           /\ orders'[n].customerInfo.phone
                = formatPhone(req'.body.customerInfo.phone).value
           /\ res'.orderId = orders'[n].id]_vars
C23_Witness ==
  /\ req.op = "orders"
  /\ res.status = 201
  /\ Len(orders) = 2
  /\ res.orderId = orders[2].id
  /\ orders[2].status = "pending"
  /\ orders[1].status = "paid"

(* C24: with a fresh CheckoutRequestID for every accepted push request, no *)
(* two orders ever hold the same checkoutRequestId, and a stored           *)
(* checkoutRequestId changes only in the step of an accepted push naming   *)
(* that order, which sets it to the id the gateway just issued.            *)
RefsUnique ==
  \A o, p \in DOMAIN orders : (o # p /\ Ref(o) # 0) => Ref(o) # Ref(p)
C24_ReferenceUnique ==
  /\ []RefsUnique
  /\ [][\A o \in DOMAIN orders :
          orders'[o].mpesaData.checkoutRequestId # Ref(o)
          => /\ req'.op = "stk-push"
             /\ req'.body.orderId = o
             /\ fx'.push
             /\ orders'[o].mpesaData.checkoutRequestId = nextCheckout
             /\ nextCheckout' = nextCheckout + 1
             /\ \A p \in DOMAIN orders \ {o} :
                  orders'[p].mpesaData.checkoutRequestId = Ref(p)]_vars
C24_Witness ==
  /\ Len(orders) = 2
  /\ Ref(1) # 0 /\ Ref(2) # 0
  /\ req.op = "stk-push"
  /\ res.status = 200
  /\ Ref(req.body.orderId) = res.CheckoutRequestID

(* C25: a callback handled while the push it answers is accepted by the    *)
(* gateway and not yet written finds no order and changes nothing; the     *)
(* write then makes the order payment_pending under that reference, and a  *)
(* payment_pending order changes status only through a callback carrying   *)
(* its reference.                                                          *)
EarlyCallback ==
  /\ inflight.pc = "accepted" /\ inflight' = inflight
  /\ req'.op = "callback" /\ req'.body.CheckoutRequestID = inflight.cid
LateCommit == inflight.pc = "accepted" /\ inflight'.pc = "idle"
C25_CallbackBeforeCommit ==
  [][/\ (EarlyCallback /\ FindByCheckout(inflight.cid) = {})
          => /\ res'.ResultDesc = "Order not found"
             /\ orders' = orders /\ notifications' = notifications
     /\ LateCommit
          => /\ orders'[inflight.body.orderId].status = "payment_pending"
             /\ orders'[inflight.body.orderId].mpesaData.checkoutRequestId
                  = inflight.cid
             /\ res'.status = 200 /\ res'.CheckoutRequestID = inflight.cid
     /\ \A o \in DOMAIN orders :
          (orders[o].status = "payment_pending"
             /\ orders'[o].status # "payment_pending")
          => req'.op = "callback" /\ req'.body.CheckoutRequestID = Ref(o)]_vars

(* the callback for the reference of a push still awaiting its write has   *)
(* just been answered 'Order not found'; the order is still pending        *)
C25_Witness ==
  /\ inflight.pc = "accepted"
  /\ req.op = "callback" /\ req.body.CheckoutRequestID = inflight.cid
  /\ PaymentSucceeded(req.body.ResultCode)
  /\ res.ResultCode = 1 /\ res.ResultDesc = "Order not found"
  /\ orders[inflight.body.orderId].status = "pending"

(* C26: when the gateway accepts a push and the read or the update of the  *)
(* payment_pending write fails, the orders are left as they were and no    *)
(* order holds the reference of that attempt; a reference that was issued  *)
(* and is held by no order is never written later, and every callback      *)
(* carrying it is answered 'Order not found' and changes no order.         *)
Issued == 1..(nextCheckout - 1)
LostWrite ==
  /\ req'.op = "stk-push" /\ fx'.push
  /\ nextCheckout' = nextCheckout + 1
  /\ io' \cap {"uosRead", "uosWrite"} # {}
C26_LostReference ==
  [][/\ LostWrite
          => /\ orders' = orders
             /\ \A o \in DOMAIN orders' :
                  orders'[o].mpesaData.checkoutRequestId # nextCheckout
             /\ res'.status # 200
     /\ \A c \in Issued :
          FindByCheckout(c) = {}
          => /\ \A o \in DOMAIN orders' :
                  orders'[o].mpesaData.checkoutRequestId # c
             /\ (req'.op = "callback" /\ req'.body.CheckoutRequestID = c)
                  => /\ res'.ResultCode = 1
                     /\ res'.ResultDesc = "Order not found"
                     /\ orders' = orders]_vars

(* a callback for the reference of an attempt whose write failed has been  *)
(* answered 'Order not found'                                              *)
C26_Witness ==
  /\ nextCheckout = 2
  /\ \A o \in DOMAIN orders : Ref(o) = 0 /\ orders[o].status = "pending"
  /\ req.op = "callback" /\ req.body.CheckoutRequestID = 1
  /\ res.ResultDesc = "Order not found"

(* C27: when the two deliveries of one callback payload have both been     *)
(* handled, in whatever order their store reads and writes were            *)
(* interleaved, the order holds the status and the receipt, amount and     *)
(* phone, or the failure reason, that one delivery writes, and every       *)
(* other payment field as it was read before.                              *)
BothDone == \A d \in Deliveries : deliveries[d].pc = "done"
C27_DuplicateDeliveries ==
  \A d \in Deliveries :
    (BothDone /\ deliveries[d].orderId # 0)
    => LET dl == deliveries[d]
           data == CallbackData(dl.body, dl.t)
           order == orders[dl.orderId]
       IN /\ \A e \in Deliveries : deliveries[e].orderId = dl.orderId
          /\ order.status = CallbackStatus(dl.body)
          /\ \A k \in DOMAIN data : order.mpesaData[k] = data[k]
          /\ \A k \in MpesaKeys \ DOMAIN data : order.mpesaData[k] = dl.cur[k]

(* both deliveries of a success callback without metadata have been        *)
(* handled, and the second read the order after the first had written it   *)
C27_Witness ==
  /\ BothDone
  /\ \E d, e \in Deliveries :
       /\ deliveries[d].orderId # 0
       /\ PaymentSucceeded(deliveries[d].body.ResultCode)
       /\ deliveries[d].cur.mpesaCallback = NoBody
       /\ deliveries[e].cur.mpesaCallback = deliveries[e].body
       /\ orders[deliveries[d].orderId].status = "paid"
       /\ orders[deliveries[d].orderId].mpesaData.amount = 0

(* C28: an order whose status is pending changes status only in a push     *)
(* request that names its id and that the gateway accepted, and it becomes *)
(* payment_pending; no callback and no request about another order moves   *)
(* it.                                                                     *)
C28_LeavesPendingByPush ==
  [][\A o \in DOMAIN orders :
       (orders[o].status = "pending" /\ orders'[o].status # "pending")
       => /\ req'.op = "stk-push" /\ req'.body.orderId = o
          /\ fx'.push /\ res'.status = 200
          /\ orders'[o].status = "payment_pending"]_vars

(* a push for the second order was accepted while the first is pending:   *)
(* the second order left pending, the first did not                        *)
C28_Witness ==
  /\ req.op = "stk-push" /\ req.body.orderId = 2 /\ res.status = 200
  /\ Len(orders) = 2
  /\ orders[2].status = "payment_pending"
  /\ orders[1].status = "pending"

(* C29: an order to which no callback has been applied (it stores no       *)
(* callback payload) has no receipt number, amount, phone or failure       *)
(* reason among its payment fields.                                        *)
C29_DetailsOnlyFromCallback ==
  \A o \in DOMAIN orders :
    orders[o].mpesaData.mpesaCallback = NoBody
    => /\ orders[o].mpesaData.receiptNumber = NoStr
       /\ orders[o].mpesaData.amount = NoNum
       /\ orders[o].mpesaData.phoneNumber = NoPhone
       /\ orders[o].mpesaData.reason = NoStr

(* C30: no request changes the id, items, total, customerInfo,             *)
(* paymentMethod or createdAt of an order that exists; a push or a         *)
(* callback changes at most its status, updatedAt and payment fields, and  *)
(* the id is the key the order was created under.                          *)
Created(order) ==
  <<order.id, order.items, order.total, order.customerInfo,
    order.paymentMethod, order.createdAt>>
C30_CreationFieldsKept ==
  [][/\ \A o \in DOMAIN orders :
          /\ o \in DOMAIN orders'
          /\ Created(orders'[o]) = Created(orders[o])
          /\ orders[o].id = o
     /\ req'.op \in {"stk-push", "callback"} => DOMAIN orders' = DOMAIN orders]_vars

(* a push and a callback have written an order created earlier: updatedAt  *)
(* has moved, the order is paid                                            *)
C30_Witness ==
  /\ req.op = "callback"
  /\ \E o \in DOMAIN orders :
       /\ orders[o].status = "paid"
       /\ orders[o].mpesaData.checkoutRequestId # 0
       /\ orders[o].updatedAt > orders[o].createdAt
       /\ orders[o].items # <<>> /\ orders[o].total = 1500

(* C31: a push for an existing order with a valid phone and a positive     *)
(* amount is accepted and makes the order payment_pending whether or not   *)
(* the amount is the order's total, and a matched callback with code 0     *)
(* makes the order paid whatever amount its metadata carries.              *)
C31_NoAmountCrossCheck ==
  [][/\ (/\ req'.op = "stk-push"
         /\ req'.body.orderId \in DOMAIN orders
         /\ req'.body.amount > 0
         /\ formatPhone(req'.body.phoneNumber).ok)
          => /\ res'.status = 200 /\ fx'.push
             /\ orders'[req'.body.orderId].status = "payment_pending"
             /\ orders'[req'.body.orderId].mpesaData.amount = req'.body.amount
     /\ \A o \in DOMAIN orders :
          (CallbackFor(o) /\ req'.body.ResultCode = 0)
          => /\ orders'[o].status = "paid"
             /\ orders'[o].total = orders[o].total]_vars

(* an order of total 1500 is payment_pending after a push for 700 *)
C31_Witness ==
  /\ req.op = "stk-push" /\ req.body.amount = 700 /\ res.status = 200
  /\ orders[req.body.orderId].total = 1500
  /\ orders[req.body.orderId].status = "payment_pending"
  /\ orders[req.body.orderId].mpesaData.amount = 700

(* C32: a matched callback with code 0 makes the order paid and is         *)
(* acknowledged with code 0 whatever its metadata; the order records       *)
(* 'Unknown' for a missing receipt number, 0 for a missing amount and      *)
(* 'Unknown' for a missing phone, and the value of every entry present.    *)
Entries(meta, name) ==
  IF meta.present
  THEN {meta.Item[i].Value : i \in {j \in 1..Len(meta.Item) : meta.Item[j].Name = name}}
  ELSE {}
Recorded(value, entries, sentinel) ==
  IF entries = {} THEN value = sentinel ELSE value \in entries
C32_MissingMetadata ==
  [][\A o \in DOMAIN orders :
       (CallbackFor(o) /\ req'.body.ResultCode = 0)
       => LET meta == req'.body.CallbackMetadata
              data == orders'[o].mpesaData
          IN /\ orders'[o].status = "paid"
             /\ res'.ResultCode = 0
             /\ Recorded(data.receiptNumber, Entries(meta, "MpesaReceiptNumber"),
                         "Unknown")
             /\ Recorded(data.amount, Entries(meta, "Amount"), 0)
             /\ Recorded(data.phoneNumber, Entries(meta, "PhoneNumber"), Unknown)]_vars

(* a callback with code 0 and a metadata list without receipt number has   *)
(* made the order paid with receipt 'Unknown' and the amount of the list   *)
C32_Witness ==
  \E o \in DOMAIN orders :
    /\ req.op = "callback" /\ req.body.CheckoutRequestID = Ref(o)
    /\ req.body.CallbackMetadata = MetaNoReceipt
    /\ orders[o].status = "paid"
    /\ orders[o].mpesaData.receiptNumber = "Unknown"
    /\ orders[o].mpesaData.amount = 700

(* C33: a callback matched to an order writes exactly one outcome          *)
(* notification, for that order: of type success when its code is 0 and    *)
(* the order becomes paid, of type error with the callback's ResultDesc as *)
(* reason when the order becomes payment_failed; a callback matched to no  *)
(* order writes no notification.                                           *)
Outcomes(sent) ==
  {i \in 1..Len(sent) : sent[i].kind \in {"payment", "payment-failed"}}
C33_OutcomeNotification ==
  [][/\ \A o \in DOMAIN orders :
          CallbackFor(o)
          => /\ Cardinality(Outcomes(fx'.notified)) = 1
             /\ \A i \in Outcomes(fx'.notified) :
                  /\ fx'.notified[i].orderId = o
                  /\ IF orders'[o].status = "paid"
                     THEN /\ req'.body.ResultCode = 0
                          /\ fx'.notified[i].type = "success"
                     ELSE /\ orders'[o].status = "payment_failed"
                          /\ fx'.notified[i].type = "error"
                          /\ fx'.notified[i].reason = req'.body.ResultDesc
             /\ notifications' = notifications + Len(fx'.notified)
     /\ (req'.op = "callback" /\ \A o \in DOMAIN orders : ~CallbackFor(o))
          => /\ orders' = orders
             /\ fx'.notified = <<>>
             /\ notifications' = notifications]_vars

(* a timeout callback has made the order payment_failed and written the    *)
(* one error notification with the gateway's description                   *)
C33_Witness ==
  \E o \in DOMAIN orders :
    /\ req.op = "callback" /\ req.body.CheckoutRequestID = Ref(o)
    /\ orders[o].status = "payment_failed"
    /\ fx.notified = <<Notification("payment-failed", "error", o, DescTimeout)>>
    /\ notifications = 3

(* C34: the customer confirmation email and the admin email are attempted  *)
(* only by a callback that moves its order to paid from another status: a  *)
(* callback for an order that is already paid sends neither.               *)
C34_EmailsSentOnce ==
  [][(req'.op = "callback" /\ (fx'.customerEmail \/ fx'.adminEmail))
       => \E o \in DOMAIN orders :
            /\ CallbackFor(o)
            /\ orders[o].status # "paid"
            /\ orders'[o].status = "paid"]_vars

(* C35: when the update of a push is written after a callback has written  *)
(* the same order between the push's read and its update, a paid status is *)
(* not replaced by payment_pending and the receipt number the callback     *)
(* recorded is still in the order's payment fields.                        *)
PushWrites(o) ==
  /\ inflight.pc = "read" /\ inflight'.pc = "idle"
  /\ inflight.body.orderId = o
CallbackWroteSince(o) ==
  /\ inflight.cur.mpesaCallback = NoBody
  /\ orders[o].mpesaData.mpesaCallback # NoBody
C35_NoLostUpdate ==
  [][\A o \in DOMAIN orders :
       (PushWrites(o) /\ CallbackWroteSince(o))
       => /\ orders[o].status = "paid" => orders'[o].status # "payment_pending"
          /\ orders'[o].mpesaData.receiptNumber
               = orders[o].mpesaData.receiptNumber]_vars

(* C36: an order has a paymentReference exactly when its status is not     *)
(* pending: every order in payment_pending, paid or payment_failed stores  *)
(* a checkoutRequestId, and an order without one is pending.               *)
C36_StatusWithReference ==
  \A o \in DOMAIN orders :
    /\ orders[o].status \in {"pending", "payment_pending", "paid", "payment_failed"}
    /\ orders[o].status \in {"payment_pending", "paid", "payment_failed"}
         => Ref(o) # 0
    /\ Ref(o) = 0 => orders[o].status = "pending"

(* the update of a push was written and its re-read failed: the request    *)
(* is answered 500 and the order holds both the status and the reference   *)
C36_Witness ==
  /\ req.op = "stk-push" /\ res.status = 500 /\ "uosReread" \in io
  /\ orders[req.body.orderId].status = "payment_pending"
  /\ Ref(req.body.orderId) # 0

(* C37: an accepted push for an order that already has a paymentReference  *)
(* replaces it by the new CheckoutRequestID, after which no order holds    *)
(* the old one; a callback carrying a CheckoutRequestID that an order held *)
(* before and holds no more is answered 'Order not found' and changes no   *)
(* order, whatever its ResultCode.                                         *)
Superseded(c) ==
  /\ c \in Issued
  /\ \E o \in DOMAIN orders : Ref(o) > c
  /\ \A o \in DOMAIN orders : Ref(o) # c
C37_LatestReferenceOnly ==
  [][/\ \A o \in DOMAIN orders :
          (/\ req'.op = "stk-push" /\ req'.body.orderId = o
           /\ res'.status = 200 /\ Ref(o) # 0)
          => /\ orders'[o].mpesaData.checkoutRequestId = nextCheckout
             /\ \A p \in DOMAIN orders' :
                  orders'[p].mpesaData.checkoutRequestId # Ref(o)
     /\ (WellFormedCallback /\ Superseded(req'.body.CheckoutRequestID))
          => /\ res'.ResultDesc = "Order not found"
             /\ orders' = orders
             /\ notifications' = notifications]_vars

(* after two accepted pushes for one order, a success callback for the     *)
(* first attempt was answered 'Order not found'; the order is still        *)
(* payment_pending under the second reference                              *)
C37_Witness ==
  \E o \in DOMAIN orders :
    /\ Ref(o) = 2 /\ orders[o].status = "payment_pending"
    /\ \A p \in DOMAIN orders : Ref(p) # 1
    /\ req.op = "callback" /\ req.body.CheckoutRequestID = 1
    /\ req.body.ResultCode = 0
    /\ res.ResultDesc = "Order not found"

(* C38: a callback that is acknowledged with ResultCode 1 has changed no   *)
(* order.                                                                  *)
C38_RetryCodeMeansNoChange ==
  [][(req'.op = "callback" /\ res'.ResultCode = 1) => orders' = orders]_vars

(* C39: formatPhone applied to a value it returned returns that value      *)
(* again.                                                                  *)
C39_PhoneIdempotent ==
  [][(phoneOut.ok /\ phoneIn' = phoneOut.value /\ phoneIn' # phoneIn)
       => /\ phoneOut'.ok
          /\ phoneOut'.value = phoneOut.value]_vars

(* formatPhone has been called on the value it returned for an input of    *)
(* another form, and has returned it unchanged                             *)
C39_Witness ==
  /\ phoneOut.ok /\ phoneOut.value = phoneIn
  /\ phoneIn \notin PhoneInputs

(* C40: for every request, handled from the same orders with the same      *)
(* outcome of every store, gateway, notification and email call, the       *)
(* EmailJS variant leaves the same orders (statuses and payment fields),   *)
(* the same response or acknowledgement, the same notifications and        *)
(* attempted emails, and the same failed calls as src/server.js.           *)
C40_VariantsEquivalent ==
  req.op # "none"
  => /\ twin.orders = orders
     /\ twin.nextCheckout = nextCheckout
     /\ twin.res = res
     /\ twin.fx = fx
     /\ twin.io = io

(* both variants have made an order paid by a callback whose customer      *)
(* email failed: no email notification, the payment notification, code 0   *)
C40_Witness ==
  /\ req.op = "callback" /\ "email" \in io
  /\ twin.res.ResultCode = 0 /\ twin.fx.customerEmail
  /\ Len(twin.fx.notified) = 1
  /\ \E o \in DOMAIN twin.orders : twin.orders[o].status = "paid"
====
